---- MODULE Spec2Model ----
(***************************************************************************)
(* Model of house-hunting.py: the monthly market data scraper.             *)
(*                                                                         *)
(* Python values are tagged records: None, PyInt(n), PyFloat(n) with n in   *)
(* units of 1e-6, PyStr(s) for a string the program only copies and        *)
(* compares (a name), PyText(cs) for a string the program parses or        *)
(* formats, spelled out as a sequence of one-character strings.            *)
(* A dict is a function from key strings to values; {} is <<>>.            *)
(***************************************************************************)
EXTENDS Integers, Sequences, FiniteSets, TLC

VARIABLES
    platform,               \* C library behind strftime: "windows" or "glibc"
    NYC_NEIGHBORHOODS,      \* set loaded from streeteasy_neighborhoods.json
    nbhdOrder,              \* iteration order of that set in this process
    pc,                     \* position of __main__
    townIdx,                \* next entry of TOWNS_TO_TRACK to scrape
    all_redfin_data,        \* list of successful Redfin records
    all_data_successful,
    feedIdx,                \* next entry of STREETEASY_METRIC_MAP to fetch
    current_metric_data,    \* what scrape_streeteasy_data returned last
    feedResults,            \* history: what it returned, feed by feed
    all_nyc_market_data,    \* merged dict: neighborhood -> record
    nycOrder,               \* insertion order of all_nyc_market_data
    all_market_data_to_push,
    pushIdx,                \* next record of the final push loop
    pushed,                 \* records handed to push_market_data_to_grist
    lastPushResult,         \* how the last push_market_data_to_grist ended
    scrapeCount,            \* calls of scrape_market_summary, per town
    fetchCount,             \* calls of scrape_streeteasy_data, per feed
    fn,                     \* function under test ("main" for the whole run)
    arg,                    \* its input
    ret                     \* its result

vars == <<platform, NYC_NEIGHBORHOODS, nbhdOrder, pc, townIdx, all_redfin_data,
          all_data_successful, feedIdx, current_metric_data, feedResults,
          all_nyc_market_data, nycOrder, all_market_data_to_push,
          pushIdx, pushed, lastPushResult, scrapeCount, fetchCount,
          fn, arg, ret>>

mainVars == <<pc, townIdx, all_redfin_data, all_data_successful, feedIdx,
              current_metric_data, feedResults, all_nyc_market_data, nycOrder,
              all_market_data_to_push, pushIdx, pushed, lastPushResult,
              scrapeCount, fetchCount>>

(***************************************************************************)
(* Bounds of the model.                                                    *)
(***************************************************************************)
MaxRows == 3        \* data rows of a CSV feed in the parser's test inputs
MaxTextLen == 3     \* characters of an optional metric element's text
MaxSale == 40       \* largest sale price of the list-price test inputs

(***************************************************************************)
(* Python values.                                                          *)
(***************************************************************************)
None == [t |-> "None"]
PyInt(n) == [t |-> "int", v |-> n]
PyFloat(n) == [t |-> "float", v |-> n]
PyStr(s) == [t |-> "str", v |-> s]
PyText(cs) == [t |-> "text", v |-> cs]

EmptyDict == <<>>

\* an update in which the keys already in d keep their values
DictUpdate_KeepOld(d, e) == d @@ e

\* d.update(e): the keys of e overwrite those of d
DictUpdate(d, e) == e @@ d

\* d[k] = v
DictSet(d, k, v) == (k :> v) @@ d

\* del d[k]
DictDel(d, k) == [x \in (DOMAIN d) \ {k} |-> d[x]]

\* d.get(k, default)
DictGet(d, k, default) == IF k \in DOMAIN d THEN d[k] ELSE default

(***************************************************************************)
(* Configuration.                                                          *)
(***************************************************************************)
GRIST_MASTER_SCHEMA ==
    << "Date", "Town", "Region", "Median_Sale_Price", "Median_List_Price",
       "Overall_Average_Premium_Paid", "Median_DOM", "Avg_Home_Premium",
       "Avg_Home_DOM", "Hot_Home_Premium", "Hot_Home_DOM",
       "Num_of_Homes_Sold", "Compete_Score" >>

SchemaKeys == {GRIST_MASTER_SCHEMA[i] : i \in DOMAIN GRIST_MASTER_SCHEMA}

\* column positions of a StreetEasy row, 0-based as in the source
CSV_COL_INDEXES == [DATE |-> 2, NEIGHBORHOOD |-> 0, VALUE |-> 4]

\* url_key -> Grist column, in the dict's insertion order
STREETEASY_METRIC_MAP ==
    << <<"STREETEASY_MEDIAN_RECORDED_PRICE", "Median_Sale_Price">>,
       <<"STREETEASY_MEDIAN_ASKING_PRICE", "Median_List_Price">>,
       <<"STREETEASY_SALE_TO_LIST_RATIO", "Overall_Average_Premium_Paid">>,
       <<"STREETEASY_MEDIAN_DOM", "Median_DOM">>,
       <<"STREETEASY_NUM_OF_HOMES_SOLD", "Num_of_Homes_Sold">> >>

RATIO_KEY == "Overall_Average_Premium_Paid"

(***************************************************************************)
(* Text: str.replace, re.sub(r'[^\d]', ...), int(), float().               *)
(***************************************************************************)
Digits == {"0", "1", "2", "3", "4", "5", "6", "7", "8", "9"}

DigitVal(c) ==
    CASE c = "0" -> 0 [] c = "1" -> 1 [] c = "2" -> 2 [] c = "3" -> 3
      [] c = "4" -> 4 [] c = "5" -> 5 [] c = "6" -> 6 [] c = "7" -> 7
      [] c = "8" -> 8 [] c = "9" -> 9

DigitChar(n) ==
    CASE n = 0 -> "0" [] n = 1 -> "1" [] n = 2 -> "2" [] n = 3 -> "3"
      [] n = 4 -> "4" [] n = 5 -> "5" [] n = 6 -> "6" [] n = 7 -> "7"
      [] n = 8 -> "8" [] n = 9 -> "9"

\* text.replace(c, '')
Remove(cs, c) == SelectSeq(cs, LAMBDA x : x # c)

\* re.sub(r'[^\d]', '', text)
DigitsOnly(cs) == SelectSeq(cs, LAMBDA x : x \in Digits)

Contains(cs, c) == \E i \in DOMAIN cs : cs[i] = c

AllDigits(cs) == \A i \in DOMAIN cs : cs[i] \in Digits

RECURSIVE DigitsValue(_)
DigitsValue(cs) ==
    IF cs = <<>> THEN 0
    ELSE 10 * DigitsValue(SubSeq(cs, 1, Len(cs) - 1)) + DigitVal(cs[Len(cs)])

RECURSIVE Pow10(_)
Pow10(n) == IF n = 0 THEN 1 ELSE 10 * Pow10(n - 1)

\* int(cs) of a string of digits raises ValueError on the empty string
IntRaises(cs) == cs = <<>> \/ ~AllDigits(cs)

\* the string after an optional leading sign
Unsigned(cs) ==
    IF cs # <<>> /\ cs[1] \in {"+", "-"} THEN SubSeq(cs, 2, Len(cs)) ELSE cs

\* float(cs) accepts [sign] digits [. digits] with at least one digit (of
\* the characters the model's texts are made of); anything else raises
\* ValueError
FloatRaises(cs) ==
    LET u == Unsigned(cs)
        dots == Len(SelectSeq(u, LAMBDA x : x = "."))
    IN  \/ DigitsOnly(u) = <<>>
        \/ dots > 1
        \/ \E i \in DOMAIN u : u[i] \notin Digits \cup {"."}

\* float(cs) in units of 1e-4 (texts of the model have at most four decimals)
FloatE4(cs) ==
    LET u == Unsigned(cs)
        dot == IF Contains(u, ".")
               THEN CHOOSE i \in DOMAIN u : u[i] = "."
               ELSE Len(u) + 1
        ip == SubSeq(u, 1, dot - 1)
        fp == SubSeq(u, dot + 1, Len(u))
        mag == DigitsValue(ip) * 10000
               + (DigitsValue(fp) * 10000) \div Pow10(Len(fp))
    IN  IF cs # <<>> /\ cs[1] = "-" THEN 0 - mag ELSE mag

\* round(x, 4) of a float in units of 1e-6: the nearest multiple of 1e-4
\* (a tie goes to the even multiple)
Round4(n) ==
    LET lo == (n \div 100) * 100
        r == n - lo
    IN  IF r < 50 THEN lo
        ELSE IF r > 50 THEN lo + 100
        ELSE IF (lo \div 100) % 2 = 0 THEN lo ELSE lo + 100

\* int(x) of a quotient a / b: truncation toward zero
TruncDiv(a, b) ==
    LET q == (IF a < 0 THEN 0 - a ELSE a) \div (IF b < 0 THEN 0 - b ELSE b)
    IN  IF (a < 0) = (b < 0) THEN q ELSE 0 - q

(***************************************************************************)
(* Dates: calendar.monthrange, datetime.strptime, strftime.                *)
(***************************************************************************)
MonthNames ==
    << "January", "February", "March", "April", "May", "June", "July",
       "August", "September", "October", "November", "December" >>

isleap(year) == year % 4 = 0 /\ (year % 100 # 0 \/ year % 400 = 0)

mdays == <<31, 28, 31, 30, 31, 30, 31, 31, 30, 31, 30, 31>>

\* calendar.monthrange(year, month)[1]
monthrange(year, month) ==
    mdays[month] + (IF month = 2 /\ isleap(year) THEN 1 ELSE 0)

\* n as decimal digits, zero-padded to width w
RECURSIVE Padded(_, _)
Padded(n, w) ==
    IF w = 0 THEN <<>> ELSE Append(Padded(n \div 10, w - 1), DigitChar(n % 10))

\* n as decimal digits without leading zeros
RECURSIVE Unpadded(_)
Unpadded(n) ==
    IF n < 10 THEN <<DigitChar(n)>>
    ELSE Append(Unpadded(n \div 10), DigitChar(n % 10))

\* final_date.strftime('%m/%d/%Y')
StrftimePadded(y, m, d) ==
    Padded(m, 2) \o <<"/">> \o Padded(d, 2) \o <<"/">> \o Padded(y, 4)

\* final_date.strftime('%#m/%#d/%Y'): the # flag drops the leading zero on
\* Windows and is ignored for numbers by glibc
StrftimeHash(plat, y, m, d) ==
    IF plat = "windows"
    THEN Unpadded(m) \o <<"/">> \o Unpadded(d) \o <<"/">> \o Padded(y, 4)
    ELSE StrftimePadded(y, m, d)

\* a 'Month YYYY' string is the pair <<word, year>>; strptime(.., '%B %Y')
\* raises ValueError when the word is no month name or the year is 0
MonthYearRaises(mys) ==
    \/ \A i \in DOMAIN MonthNames : MonthNames[i] # mys[1]
    \/ mys[2] < 1

MonthNumber(word) == CHOOSE i \in DOMAIN MonthNames : MonthNames[i] = word

\* a conversion that keeps the day strptime gives a 'Month YYYY' string
get_last_day_of_month_FirstDay(plat, month_year_str) ==
    IF MonthYearRaises(month_year_str) THEN None
    ELSE PyText(StrftimeHash(plat, month_year_str[2],
                             MonthNumber(month_year_str[1]), 1))

get_last_day_of_month(plat, month_year_str) ==
    IF MonthYearRaises(month_year_str) THEN None
    ELSE LET year == month_year_str[2]
             month == MonthNumber(month_year_str[1])
             last_day == monthrange(year, month)
         IN  PyText(StrftimeHash(plat, year, month, last_day))

(***************************************************************************)
(* Field extractors.  An element is Absent or Elem(text).                  *)
(***************************************************************************)
Absent == <<"absent">>
Elem(cs) == <<"elem", cs>>
Raise(e) == [t |-> "raise", v |-> e]
IsRaise(x) == x.t = "raise"

get_clean_number(element, default) ==
    IF element = Absent THEN default
    ELSE LET text == element[2] IN
         IF Contains(text, "%")
         THEN LET t == Remove(Remove(Remove(text, "%"), "+"), "-") IN
              IF FloatRaises(t) THEN Raise("ValueError")
              ELSE PyFloat(Round4(FloatE4(t) - 1000000))
         ELSE LET clean_text == DigitsOnly(text) IN
              IF IntRaises(clean_text) THEN default
              ELSE PyInt(DigitsValue(clean_text))

get_clean_premium_percentage(element, default) ==
    IF element = Absent THEN default
    ELSE LET clean_text == Remove(element[2], "%") IN
         IF Contains(clean_text, "+")
         THEN LET t == Remove(clean_text, "+") IN
              IF FloatRaises(t) THEN default
              ELSE PyFloat(Round4(FloatE4(t)))
         ELSE IF FloatRaises(clean_text) THEN default
              ELSE PyFloat(Round4(FloatE4(clean_text)))

(***************************************************************************)
(* Record normalizer.                                                      *)
(***************************************************************************)
\* a normalizer that fills in the schema's keys and keeps every input key
normalize_record_for_grist_KeepAll(record, schema) ==
    record @@ [key \in {schema[i] : i \in DOMAIN schema} |-> None]

normalize_record_for_grist(record, schema) ==
    [key \in {schema[i] : i \in DOMAIN schema} |-> DictGet(record, key, None)]

(***************************************************************************)
(* StreetEasy CSV parser.  A response is <<"error">> (the request raised)  *)
(* or <<"ok", lines>>; a line is the list of its columns as csv.reader     *)
(* yields it: the neighborhood name, a date string and the value text at   *)
(* the positions of CSV_COL_INDEXES.  A date string is <<y, m, d>> for the *)
(* text 'y-m-d' and <<>> for text of any other shape.                      *)
(***************************************************************************)
DatetimeMin == <<1, 1, 1>>

PyDatetime(d) == [t |-> "datetime", v |-> d]

\* datetime.strptime(date_str, '%Y-%m-%d') raises ValueError
DateRaises(date_str) ==
    \/ date_str = <<>>
    \/ date_str[1] < 1
    \/ date_str[2] \notin 1..12
    \/ date_str[3] < 1
    \/ date_str[3] > monthrange(date_str[1], date_str[2])

\* a > b on datetimes
DateGreater(a, b) ==
    \/ a[1] > b[1]
    \/ a[1] = b[1] /\ a[2] > b[2]
    \/ a[1] = b[1] /\ a[2] = b[2] /\ a[3] > b[3]

\* row[i] raises IndexError for one of the three columns
RowIndexError(row, csv_indexes) ==
    \/ csv_indexes.NEIGHBORHOOD + 1 > Len(row)
    \/ csv_indexes.DATE + 1 > Len(row)
    \/ csv_indexes.VALUE + 1 > Len(row)

\* the body of "for row in reader": the new town_data, or raised
ProcessRow(town_data, row, metric_key, target_towns, csv_indexes) ==
    IF RowIndexError(row, csv_indexes)
    THEN [raised |-> FALSE, town_data |-> town_data]
    ELSE LET town == row[csv_indexes.NEIGHBORHOOD + 1]
             date_str == row[csv_indexes.DATE + 1]
             value == row[csv_indexes.VALUE + 1]
         IN  IF town \notin target_towns
             THEN [raised |-> FALSE, town_data |-> town_data]
             ELSE IF DateRaises(date_str)
             THEN [raised |-> TRUE, town_data |-> town_data]
             ELSE LET current_date == date_str
                      old == town_data[town]
                      stored == DictGet(old, "_DateTimeObject",
                                        PyDatetime(DatetimeMin))
                  IN  IF DOMAIN old = {} \/ DateGreater(current_date, stored.v)
                      THEN LET last_day ==
                                   monthrange(current_date[1], current_date[2])
                               formatted_date_str ==
                                   StrftimePadded(current_date[1],
                                                  current_date[2], last_day)
                               new ==
                                   DictSet(DictSet(DictSet(DictSet(DictSet(old,
                                       "_DateTimeObject",
                                       PyDatetime(current_date)),
                                       "Date", PyText(formatted_date_str)),
                                       "Town", PyStr(town)),
                                       "Region", PyStr("New York City")),
                                       metric_key, PyText(value))
                           IN  [raised |-> FALSE,
                                town_data |->
                                    [town_data EXCEPT ![town] = new]]
                      ELSE [raised |-> FALSE, town_data |-> town_data]

RECURSIVE RowLoop(_, _, _, _, _)
RowLoop(town_data, rows, metric_key, target_towns, csv_indexes) ==
    IF rows = <<>> THEN [raised |-> FALSE, town_data |-> town_data]
    ELSE LET step == ProcessRow(town_data, Head(rows), metric_key,
                                target_towns, csv_indexes)
         IN  IF step.raised THEN step
             ELSE RowLoop(step.town_data, Tail(rows), metric_key,
                          target_towns, csv_indexes)

scrape_streeteasy_data(response, metric_key, target_towns, csv_indexes) ==
    LET town_data == [town \in target_towns |-> EmptyDict] IN
    IF response[1] # "ok" THEN EmptyDict
    ELSE IF response[2] = <<>> THEN EmptyDict       \* next(reader) raises
    ELSE LET loop == RowLoop(town_data, Tail(response[2]), metric_key,
                             target_towns, csv_indexes)
         IN  IF loop.raised THEN EmptyDict
             ELSE LET cleaned ==
                          [town \in target_towns |->
                              DictDel(loop.town_data[town], "_DateTimeObject")]
                  IN  [k \in {t \in target_towns : DOMAIN cleaned[t] # {}}
                          |-> cleaned[k]]

(***************************************************************************)
(* Redfin market page parser.  A response is <<"error">> (the request      *)
(* raised) or <<"ok", page>>; a page gives, for every selector of          *)
(* MARKET_SELECTORS, what select_one finds: Absent or Elem(text).  The     *)
(* summary paragraph's text is a sequence of tokens, <<"w", word>> or      *)
(* <<"y", n>> for a run of four digits.                                    *)
(***************************************************************************)
MARKET_SELECTORS ==
    { "LONG_DATE", "SALE_PRICE", "SALE_TO_LIST_RATIO", "MEDIAN_DOM",
      "AVERAGE_AVERAGE_PREMIUM", "AVERAGE_AVERAGE_DOM", "HOT_AVERAGE_PREMIUM",
      "HOT_AVERAGE_DOM", "NUM_OF_HOMES_SOLD", "COMPETE_SCORE" }

NoMatch == <<>>

\* re.search(r'In\s+([A-Za-z]+\s+\d{4})', text).group(1): the first "In"
\* followed by a word and four digits
RegexSearch(text) ==
    LET hits == {i \in 1..(Len(text) - 2) :
                    /\ text[i] = <<"w", "In">>
                    /\ text[i + 1][1] = "w"
                    /\ text[i + 2][1] = "y"}
    IN  IF hits = {} THEN NoMatch
        ELSE LET i == CHOOSE j \in hits : \A k \in hits : j <= k
             IN  <<text[i + 1][2], text[i + 2][2]>>

\* round(median_sale_price / ratio): the nearest integer
ListPrices_Rounded(median_sale_price, ratio) ==
    {TruncDiv(2 * median_sale_price * 1000000 + ratio, 2 * ratio)}

\* int(median_sale_price / ratio), the ratio in units of 1e-6.  The quotient
\* is a binary float: where the exact quotient is a whole number and the
\* ratio has no exact binary form, the float may fall just short of it
\* (7 / 0.07 is 99.99999999999999), and int() then yields the number before.
ListPrices(median_sale_price, ratio) ==
    LET q == TruncDiv(median_sale_price * 1000000, ratio)
        exact == q * ratio = median_sale_price * 1000000
        dyadic == ratio % 15625 = 0     \* ratio / 1e6 is a binary fraction
    IN  IF exact /\ q # 0 /\ ~dyadic
        THEN {q, IF q > 0 THEN q - 1 ELSE q + 1}
        ELSE {q}

scrape_market_summary(plat, town, region, response) ==
    IF response[1] # "ok" THEN {None}               \* RequestException
    ELSE
    LET page == response[2]
        long_date_elem == page["LONG_DATE"]
        sale_price_elem == page["SALE_PRICE"]
        ratio_elem == page["SALE_TO_LIST_RATIO"]
        num_of_homes_sold_elem == page["NUM_OF_HOMES_SOLD"]
    IN
    IF long_date_elem = Absent THEN {None}
    ELSE
    LET match == RegexSearch(long_date_elem[2]) IN
    IF match = NoMatch THEN {None}
    ELSE
    LET formatted_date == get_last_day_of_month(plat, match) IN
    IF formatted_date = None THEN {None}
    ELSE IF sale_price_elem = Absent THEN {None}    \* AttributeError
    ELSE
    LET sale_price_text == DigitsOnly(sale_price_elem[2]) IN
    IF IntRaises(sale_price_text) THEN {None}       \* ValueError, outer except
    ELSE IF ratio_elem = Absent THEN {None}         \* AttributeError
    ELSE
    LET median_sale_price == DigitsValue(sale_price_text)
        ratio_text == Remove(ratio_elem[2], "%")
    IN
    IF FloatRaises(ratio_text) THEN {None}          \* ValueError, outer except
    ELSE
    LET original_sale_to_list_ratio == FloatE4(ratio_text) IN
    IF original_sale_to_list_ratio = 0 THEN {None}  \* ZeroDivisionError
    ELSE
    LET overall_average_premium_paid ==
            Round4(original_sale_to_list_ratio - 1000000)
        median_dom == get_clean_number(page["MEDIAN_DOM"], PyInt(0))
        avg_home_premium ==
            get_clean_premium_percentage(page["AVERAGE_AVERAGE_PREMIUM"],
                                         PyFloat(0))
        avg_home_dom == get_clean_number(page["AVERAGE_AVERAGE_DOM"], PyInt(0))
        hot_home_premium ==
            get_clean_premium_percentage(page["HOT_AVERAGE_PREMIUM"],
                                         PyFloat(0))
        hot_home_dom == get_clean_number(page["HOT_AVERAGE_DOM"], PyInt(0))
        compete_score == get_clean_number(page["COMPETE_SCORE"], PyInt(0))
        num_homes_sold ==
            IF num_of_homes_sold_elem # Absent
            THEN PyText(num_of_homes_sold_elem[2]) ELSE None
    IN
    IF \/ IsRaise(median_dom) \/ IsRaise(avg_home_dom)
       \/ IsRaise(hot_home_dom) \/ IsRaise(compete_score)
    THEN {None}                                     \* ValueError, outer except
    ELSE
    { [Date |-> formatted_date,
       Town |-> PyStr(town),
       Region |-> PyStr(region),
       Median_Sale_Price |-> PyInt(median_sale_price),
       Median_List_Price |-> PyInt(median_list_price),
       Overall_Average_Premium_Paid |-> PyFloat(overall_average_premium_paid),
       Median_DOM |-> median_dom,
       Avg_Home_Premium |-> avg_home_premium,
       Avg_Home_DOM |-> avg_home_dom,
       Hot_Home_Premium |-> hot_home_premium,
       Hot_Home_DOM |-> hot_home_dom,
       Num_of_Homes_Sold |-> num_homes_sold,
       Compete_Score |-> compete_score]
      : median_list_price \in
            ListPrices(median_sale_price, original_sale_to_list_ratio) }

(***************************************************************************)
(* Publisher.  postOk tells whether the POST and raise_for_status pass.    *)
(***************************************************************************)
push_market_data_to_grist(data_row, postOk) ==
    IF ~(SchemaKeys \subseteq DOMAIN data_row)
    THEN "unexpected error"                 \* KeyError building the payload
    ELSE IF postOk THEN "added" ELSE "request error"

(***************************************************************************)
(* __main__: inputs of a run.                                              *)
(***************************************************************************)
\* redfin_towns.json: town -> [region, url], in the file's order
TOWNS_TO_TRACK == << <<"Ridgewood", "New Jersey">>, <<"Montclair", "New Jersey">> >>

\* the neighborhood sets streeteasy_neighborhoods.json is drawn from, each in
\* the orders a Python set may iterate in
NeighborhoodOrders ==
    { <<"Astoria", "Harlem">>, <<"Harlem", "Astoria">>,
      <<"Astoria", "Ridgewood">>, <<"Ridgewood", "Astoria">> }

W(word) == <<"w", word>>
Y(n) == <<"y", n>>

AllAbsent == [sel \in MARKET_SELECTORS |-> Absent]

\* a page with every element present and well-formed
PageFull ==
    [AllAbsent EXCEPT
        !["LONG_DATE"] = Elem(<<W("In"), W("October"), Y(2025), W("home")>>),
        !["SALE_PRICE"] = Elem(<<"$", "5", "0", "0", "K">>),
        !["SALE_TO_LIST_RATIO"] = Elem(<<"1", "0", "3", ".", "5", "%">>),
        !["MEDIAN_DOM"] = Elem(<<"4", "2">>),
        !["AVERAGE_AVERAGE_PREMIUM"] = Elem(<<"2", "%">>),
        !["AVERAGE_AVERAGE_DOM"] = Elem(<<"3", "6">>),
        !["HOT_AVERAGE_PREMIUM"] = Elem(<<"+", "8", "%">>),
        !["HOT_AVERAGE_DOM"] = Elem(<<"9">>),
        !["NUM_OF_HOMES_SOLD"] = Elem(<<"1", "2">>),
        !["COMPETE_SCORE"] = Elem(<<"7", "5">>)]

\* the same page without its sale-to-list ratio
PageNoRatio == [PageFull EXCEPT !["SALE_TO_LIST_RATIO"] = Absent]

RunPageResponses == { <<"error">>, <<"ok", PageFull>>, <<"ok", PageNoRatio>> }

Header == <<"areaName", "Borough", "date", "areaType", "value">>

Row(town, date_str, value) == <<town, "-", date_str, "neighborhood", value>>

\* the texts the two files of feed i carry as values
FeedValues(i) ==
    IF STREETEASY_METRIC_MAP[i][2] = RATIO_KEY
    THEN << <<"1", ".", "0", "5">>, <<"n", "a">> >>
    ELSE << <<"7", DigitChar(i)>>, <<"9", DigitChar(i)>> >>

\* an older month for three neighborhoods
FileOld(i) ==
    << Header,
       Row("Astoria", <<2024, 2, 10>>, FeedValues(i)[1]),
       Row("Harlem", <<2024, 1, 15>>, FeedValues(i)[1]),
       Row("Ridgewood", <<2024, 2, 20>>, FeedValues(i)[1]) >>

\* a newer month for one of them
FileNew(i) ==
    << Header,
       Row("Chelsea", <<2024, 3, 5>>, FeedValues(i)[1]),
       Row("Astoria", <<2024, 3, 5>>, FeedValues(i)[2]) >>

RunFeedResponses(i) == { <<"error">>, <<"ok", FileOld(i)>>, <<"ok", FileNew(i)>> }

(***************************************************************************)
(* __main__: the run.                                                      *)
(***************************************************************************)
MainIdle ==
    /\ townIdx = 1
    /\ all_redfin_data = <<>>
    /\ all_data_successful = TRUE
    /\ feedIdx = 1
    /\ current_metric_data = EmptyDict
    /\ feedResults = <<>>
    /\ all_nyc_market_data = EmptyDict
    /\ nycOrder = <<>>
    /\ all_market_data_to_push = <<>>
    /\ pushIdx = 1
    /\ pushed = <<>>
    /\ lastPushResult = "none"
    /\ scrapeCount = [i \in DOMAIN TOWNS_TO_TRACK |-> 0]
    /\ fetchCount = [i \in DOMAIN STREETEASY_METRIC_MAP |-> 0]

Init ==
    /\ platform \in {"windows", "glibc"}
    /\ nbhdOrder \in NeighborhoodOrders
    /\ NYC_NEIGHBORHOODS = {nbhdOrder[i] : i \in DOMAIN nbhdOrder}
    /\ pc = "redfin"
    /\ MainIdle
    /\ fn = "main"
    /\ arg = <<>>
    /\ ret = <<>>

\* one iteration of "for town, region_url_list in TOWNS_TO_TRACK.items()"
ScrapeTown ==
    /\ pc = "redfin"
    /\ \E response \in RunPageResponses :
       \E market_data \in scrape_market_summary(platform,
                              TOWNS_TO_TRACK[townIdx][1],
                              TOWNS_TO_TRACK[townIdx][2], response) :
          IF market_data # None
          THEN /\ all_redfin_data' = Append(all_redfin_data, market_data)
               /\ UNCHANGED all_data_successful
          ELSE /\ all_data_successful' = FALSE
               /\ UNCHANGED all_redfin_data
    /\ scrapeCount' = [scrapeCount EXCEPT ![townIdx] = @ + 1]
    /\ townIdx' = townIdx + 1
    /\ pc' = IF townIdx = Len(TOWNS_TO_TRACK) THEN "streeteasy" ELSE "redfin"
    /\ UNCHANGED <<platform, NYC_NEIGHBORHOODS, nbhdOrder, feedIdx,
                   current_metric_data, feedResults, all_nyc_market_data,
                   nycOrder, all_market_data_to_push, pushIdx, pushed,
                   lastPushResult, fetchCount, fn, arg, ret>>

\* "for town, data in current_metric_data.items()": update or insert
RECURSIVE MergeInto(_, _, _)
MergeInto(merged, data, towns) ==
    IF towns = <<>> THEN merged
    ELSE LET town == Head(towns)
             next == IF town \notin DOMAIN data THEN merged
                     ELSE IF town \in DOMAIN merged
                     THEN [merged EXCEPT ![town] = DictUpdate(@, data[town])]
                     ELSE DictSet(merged, town, data[town])
         IN  MergeInto(next, data, Tail(towns))

\* a merge that records every returned neighborhood as a new key
NewKeys_NoMembershipTest(merged, data, towns) ==
    SelectSeq(towns, LAMBDA t : t \in DOMAIN data)

\* the keys the merge inserts, in order
NewKeys(merged, data, towns) ==
    SelectSeq(towns, LAMBDA t : t \in DOMAIN data /\ t \notin DOMAIN merged)

\* one iteration of "for url_key, metric_key in STREETEASY_METRIC_MAP.items()"
FetchFeed ==
    /\ pc = "streeteasy"
    /\ \E response \in RunFeedResponses(feedIdx) :
          LET data == scrape_streeteasy_data(response,
                          STREETEASY_METRIC_MAP[feedIdx][2],
                          NYC_NEIGHBORHOODS, CSV_COL_INDEXES)
          IN  /\ current_metric_data' = data
              /\ feedResults' = Append(feedResults, data)
              /\ all_nyc_market_data' =
                     MergeInto(all_nyc_market_data, data, nbhdOrder)
              /\ nycOrder' =
                     nycOrder \o NewKeys(all_nyc_market_data, data, nbhdOrder)
    /\ fetchCount' = [fetchCount EXCEPT ![feedIdx] = @ + 1]
    /\ feedIdx' = feedIdx + 1
    /\ pc' = IF feedIdx = Len(STREETEASY_METRIC_MAP) THEN "calc"
             ELSE "streeteasy"
    /\ UNCHANGED <<platform, NYC_NEIGHBORHOODS, nbhdOrder, townIdx,
                   all_redfin_data, all_data_successful,
                   all_market_data_to_push, pushIdx, pushed, lastPushResult,
                   scrapeCount, fn, arg, ret>>

\* the calculation step on one merged record: the stored ratio text becomes
\* the premium ratio - 1.0 (unrounded), or None when float() raises
CalculatePremium(data) ==
    LET raw_ratio == DictGet(data, RATIO_KEY, None) IN
    IF raw_ratio = None THEN data
    ELSE IF FloatRaises(raw_ratio.v) THEN DictSet(data, RATIO_KEY, None)
    ELSE DictSet(data, RATIO_KEY,
                 PyFloat(FloatE4(raw_ratio.v) * 100 - 1000000))

\* the calculation loop, the payload check (which only prints) and the
\* combination of the two lists
Calculate ==
    /\ pc = "calc"
    /\ all_nyc_market_data' =
           [town \in DOMAIN all_nyc_market_data |->
               CalculatePremium(all_nyc_market_data[town])]
    /\ all_market_data_to_push' =
           all_redfin_data \o
           [i \in DOMAIN nycOrder |-> all_nyc_market_data'[nycOrder[i]]]
    /\ pc' = IF all_redfin_data = <<>> /\ nycOrder = <<>> THEN "done"
             ELSE "push"
    /\ UNCHANGED <<platform, NYC_NEIGHBORHOODS, nbhdOrder, townIdx,
                   all_redfin_data, all_data_successful, feedIdx,
                   current_metric_data, feedResults, nycOrder, pushIdx,
                   pushed, lastPushResult, scrapeCount, fetchCount,
                   fn, arg, ret>>

\* a push loop that a failed POST ends
Push_StopOnFailure ==
    /\ pc = "push"
    /\ LET record == all_market_data_to_push[pushIdx]
           normalized_record ==
               normalize_record_for_grist(record, GRIST_MASTER_SCHEMA)
       IN  /\ pushed' = Append(pushed, normalized_record)
           /\ \E postOk \in BOOLEAN :
                 /\ lastPushResult' =
                        push_market_data_to_grist(normalized_record, postOk)
                 /\ pc' = IF pushIdx = Len(all_market_data_to_push) \/ ~postOk
                          THEN "done" ELSE "push"
    /\ pushIdx' = pushIdx + 1
    /\ UNCHANGED <<platform, NYC_NEIGHBORHOODS, nbhdOrder, townIdx,
                   all_redfin_data, all_data_successful, feedIdx,
                   current_metric_data, feedResults, all_nyc_market_data,
                   nycOrder, all_market_data_to_push, scrapeCount, fetchCount,
                   fn, arg, ret>>

\* one iteration of "for record in all_market_data_to_push"
Push ==
    /\ pc = "push"
    /\ LET record == all_market_data_to_push[pushIdx]
           normalized_record ==
               normalize_record_for_grist(record, GRIST_MASTER_SCHEMA)
       IN  /\ pushed' = Append(pushed, normalized_record)
           /\ \E postOk \in BOOLEAN :
                 lastPushResult' =
                     push_market_data_to_grist(normalized_record, postOk)
    /\ pushIdx' = pushIdx + 1
    /\ pc' = IF pushIdx = Len(all_market_data_to_push) THEN "done" ELSE "push"
    /\ UNCHANGED <<platform, NYC_NEIGHBORHOODS, nbhdOrder, townIdx,
                   all_redfin_data, all_data_successful, feedIdx,
                   current_metric_data, feedResults, all_nyc_market_data,
                   nycOrder, all_market_data_to_push, scrapeCount, fetchCount,
                   fn, arg, ret>>

Next == ScrapeTown \/ FetchFeed \/ Calculate \/ Push

Spec == Init /\ [][Next]_vars

(***************************************************************************)
(* The functions on their own: fn names the function, arg is its input,    *)
(* ret is Pending until the call returns.                                  *)
(***************************************************************************)
Pending == <<"pending">>
Returned(x) == <<"returned", x>>

\* the state of a process that calls one function instead of running main
CallInit(plat, f) ==
    /\ platform = plat
    /\ nbhdOrder = <<"Astoria", "Harlem">>
    /\ NYC_NEIGHBORHOODS = {"Astoria", "Harlem"}
    /\ pc = "call"
    /\ MainIdle
    /\ fn = f
    /\ ret = Pending

\* --- normalize_record_for_grist ---
TestValues(key) ==
    IF key = "Date" THEN {PyText(<<"0", "1", "/", "3", "1", "/", "2", "0", "2", "4">>), None}
    ELSE IF key = "Town" THEN {PyStr("Astoria")}
    ELSE IF key = "Median_DOM" THEN {PyInt(0), PyText(<<"7">>)}
    ELSE IF key = "Compete_Score" THEN {PyInt(75), None}
    ELSE IF key = "_DateTimeObject" THEN {PyDatetime(<<2024, 1, 15>>)}
    ELSE {PyStr("x"), PyInt(1)}

TestKeys ==
    {"Date", "Town", "Median_DOM", "Compete_Score", "_DateTimeObject", "Source"}

TestRecords ==
    UNION { {r \in [keys -> UNION {TestValues(k) : k \in keys}] :
                \A k \in keys : r[k] \in TestValues(k)}
            : keys \in SUBSET TestKeys }

InitNormalize ==
    /\ CallInit("glibc", "normalize_record_for_grist")
    /\ arg \in TestRecords

CallNormalize ==
    /\ fn = "normalize_record_for_grist"
    /\ ret = Pending
    /\ ret' = Returned(normalize_record_for_grist(arg, GRIST_MASTER_SCHEMA))
    /\ UNCHANGED <<platform, NYC_NEIGHBORHOODS, nbhdOrder, mainVars, fn, arg>>

SpecNormalize ==
    (Init \/ InitNormalize) /\ [][Next \/ CallNormalize]_vars

\* --- scrape_streeteasy_data ---
TestMetric == "Median_DOM"

TestRows ==
    { Row("Astoria", <<2024, 1, 15>>, <<"7">>),
      Row("Astoria", <<2024, 2, 10>>, <<"9">>),
      Row("Astoria", <<2024, 2, 10>>, <<"8">>),
      Row("Astoria", <<2024, 2, 20>>, <<"7">>),
      Row("Astoria", <<2024, 13, 1>>, <<"9">>),
      Row("Harlem", <<2024, 2, 10>>, <<"9">>),
      Row("Harlem", <<2023, 12, 31>>, <<"7">>),
      Row("Harlem", <<>>, <<"8">>),
      Row("Chelsea", <<2024, 2, 20>>, <<"9">>),
      Row("Chelsea", <<>>, <<"7">>),
      <<"Astoria", "-", <<2024, 2, 20>>>>,
      <<>> }

SeqsUpTo(S, n) == UNION {[1..k -> S] : k \in 0..n}

TestFeedResponses ==
    {<<"error">>, <<"ok", <<>>>>}
    \cup {<<"ok", <<Header>> \o rows>> : rows \in SeqsUpTo(TestRows, MaxRows)}

InitScrapeCsv ==
    /\ CallInit("glibc", "scrape_streeteasy_data")
    /\ arg \in TestFeedResponses

CallScrapeCsv ==
    /\ fn = "scrape_streeteasy_data"
    /\ ret = Pending
    /\ ret' = Returned(scrape_streeteasy_data(arg, TestMetric,
                           NYC_NEIGHBORHOODS, CSV_COL_INDEXES))
    /\ UNCHANGED <<platform, NYC_NEIGHBORHOODS, nbhdOrder, mainVars, fn, arg>>

SpecCsv == InitScrapeCsv /\ [][CallScrapeCsv]_vars

\* --- scrape_market_summary ---
OptionalSelectors ==
    { "MEDIAN_DOM", "AVERAGE_AVERAGE_PREMIUM", "AVERAGE_AVERAGE_DOM",
      "HOT_AVERAGE_PREMIUM", "HOT_AVERAGE_DOM", "COMPETE_SCORE" }

\* the record key an optional selector feeds, and its typed default
OptionalKey(sel) ==
    CASE sel = "MEDIAN_DOM" -> "Median_DOM"
      [] sel = "AVERAGE_AVERAGE_PREMIUM" -> "Avg_Home_Premium"
      [] sel = "AVERAGE_AVERAGE_DOM" -> "Avg_Home_DOM"
      [] sel = "HOT_AVERAGE_PREMIUM" -> "Hot_Home_Premium"
      [] sel = "HOT_AVERAGE_DOM" -> "Hot_Home_DOM"
      [] sel = "COMPETE_SCORE" -> "Compete_Score"

OptionalDefault(sel) ==
    IF sel \in {"AVERAGE_AVERAGE_PREMIUM", "HOT_AVERAGE_PREMIUM"}
    THEN PyFloat(0) ELSE PyInt(0)

GoodDate == Elem(<<W("In"), W("October"), Y(2025), W("home")>>)

TestRatioTexts ==
    { <<"1", "0", "3", ".", "5", "%">>, <<"9", "8", "%">>,
      <<"1", "0", "0", "%">>, <<"7", "%">>, <<"1", "5", "0", "%">>,
      <<"3", "3", ".", "3", "%">>, <<"0", "%">>, <<"n", "/", "a">> }

\* a page with the three critical elements and nothing else
PricePage(sale, ratio_text) ==
    [AllAbsent EXCEPT
        !["LONG_DATE"] = GoodDate,
        !["SALE_PRICE"] = Elem(<<"$">> \o Unpadded(sale)),
        !["SALE_TO_LIST_RATIO"] = Elem(ratio_text)]

OptChars == {"6", ".", "%", "+", "-", "x"}

OptTexts == SeqsUpTo(OptChars, MaxTextLen)

\* a page with good critical elements and one optional element
OptionalPage(sel, text) ==
    [PricePage(500, <<"1", "0", "3", ".", "5", "%">>) EXCEPT ![sel] = Elem(text)]

\* pages whose critical elements fail one way or another
CriticalPages ==
    { AllAbsent,
      [PageFull EXCEPT !["LONG_DATE"] = Absent],
      [PageFull EXCEPT !["LONG_DATE"] = Elem(<<W("Home"), W("prices")>>)],
      [PageFull EXCEPT !["LONG_DATE"] =
          Elem(<<W("In"), W("Octember"), Y(2025)>>)],
      [PageFull EXCEPT !["LONG_DATE"] = Elem(<<W("In"), W("May"), Y(0)>>)],
      [PageFull EXCEPT !["LONG_DATE"] =
          Elem(<<W("Back"), W("In"), W("February"), Y(2024), W("In"),
                 W("March"), Y(2024)>>)],
      [PageFull EXCEPT !["SALE_PRICE"] = Absent],
      [PageFull EXCEPT !["SALE_PRICE"] = Elem(<<"-", "-">>)],
      [PageFull EXCEPT !["SALE_TO_LIST_RATIO"] = Absent],
      PageFull, PageNoRatio }

TestPageResponses ==
    {<<"error">>}
    \cup {<<"ok", page>> : page \in CriticalPages}
    \cup {<<"ok", PricePage(sale, rt)>> :
              sale \in 1..MaxSale, rt \in TestRatioTexts}
    \cup {<<"ok", OptionalPage(sel, text)>> :
              sel \in OptionalSelectors, text \in OptTexts}

InitScrapeHtml ==
    /\ \E plat \in {"windows", "glibc"} :
          CallInit(plat, "scrape_market_summary")
    /\ arg \in TestPageResponses

CallScrapeHtml ==
    /\ fn = "scrape_market_summary"
    /\ ret = Pending
    /\ \E market_data \in
              scrape_market_summary(platform, "Ridgewood", "New Jersey", arg) :
          ret' = Returned(market_data)
    /\ UNCHANGED <<platform, NYC_NEIGHBORHOODS, nbhdOrder, mainVars, fn, arg>>

SpecHtml == InitScrapeHtml /\ [][CallScrapeHtml]_vars

\* --- dates: get_last_day_of_month and the CSV parser's date conversion ---
TestYears == {1900, 2000, 2023, 2024, 2100}

TestWords == {MonthNames[i] : i \in DOMAIN MonthNames} \cup {"Octember"}

TestDays == {1, 15, 28, 29, 30, 31}

InitLastDay ==
    /\ \E plat \in {"windows", "glibc"} :
          CallInit(plat, "get_last_day_of_month")
    /\ arg \in TestWords \X (TestYears \cup {0})

CallLastDay ==
    /\ fn = "get_last_day_of_month"
    /\ ret = Pending
    /\ ret' = Returned(get_last_day_of_month(platform, arg))
    /\ UNCHANGED <<platform, NYC_NEIGHBORHOODS, nbhdOrder, mainVars, fn, arg>>

InitScrapeDates ==
    /\ CallInit("glibc", "scrape_streeteasy_data")
    /\ \E y \in TestYears, m \in 1..12, d \in TestDays :
          arg = <<"ok", <<Header, Row("Astoria", <<y, m, d>>, <<"7">>)>>>>

SpecDate ==
    (InitLastDay \/ InitScrapeDates) /\ [][CallLastDay \/ CallScrapeCsv]_vars

(***************************************************************************)
(* Claims.                                                                 *)
(***************************************************************************)
HtmlCount == Len(all_redfin_data)

\* C1: normalize_record_for_grist returns a record whose keys are exactly
\* the schema's: a schema key of the input keeps its value, a schema key the
\* input lacks maps to None, other input keys are dropped; so every record
\* handed to the publisher has exactly the 13 master-schema keys.
C1_NormalizeExactSchema ==
    /\ (fn = "normalize_record_for_grist" /\ ret # Pending) =>
          /\ DOMAIN ret[2] = SchemaKeys
          /\ \A k \in SchemaKeys :
                ret[2][k] = IF k \in DOMAIN arg THEN arg[k] ELSE None
    /\ \A i \in DOMAIN pushed :
          /\ DOMAIN pushed[i] = SchemaKeys
          /\ Cardinality(DOMAIN pushed[i]) = 13
          /\ \A k \in SchemaKeys :
                pushed[i][k] =
                    IF k \in DOMAIN all_market_data_to_push[i]
                    THEN all_market_data_to_push[i][k] ELSE None

C1_Witness ==
    /\ fn = "normalize_record_for_grist"
    /\ ret # Pending
    /\ (DOMAIN arg) \ SchemaKeys # {}
    /\ "Date" \in DOMAIN arg
    /\ "Town" \notin DOMAIN arg
    /\ ret[2]["Town"] = None

\* C2: every record handed to push_market_data_to_grist has a non-null Date,
\* a non-null Median_Sale_Price or Median_List_Price, and a non-null
\* Overall_Average_Premium_Paid.
C2_PublishedOnlyWithCriticalFields ==
    \A i \in DOMAIN pushed :
        /\ pushed[i]["Date"] # None
        /\ pushed[i]["Median_Sale_Price"] # None
           \/ pushed[i]["Median_List_Price"] # None
        /\ pushed[i]["Overall_Average_Premium_Paid"] # None

\* what the claims on the CSV parser say of a feed's data rows
DataRows == Tail(arg[2])

WellFormed(row) ==
    /\ ~RowIndexError(row, CSV_COL_INDEXES)
    /\ ~DateRaises(row[CSV_COL_INDEXES.DATE + 1])

RowsOf(town, rows) ==
    {i \in DOMAIN rows :
        WellFormed(rows[i]) /\ rows[i][CSV_COL_INDEXES.NEIGHBORHOOD + 1] = town}

\* the first row, in file order, among the town's rows of maximum date
LatestRow(town, rows) ==
    CHOOSE i \in RowsOf(town, rows) :
        \A j \in RowsOf(town, rows) :
            LET di == rows[i][CSV_COL_INDEXES.DATE + 1]
                dj == rows[j][CSV_COL_INDEXES.DATE + 1]
            IN  ~DateGreater(dj, di) /\ (di = dj => i <= j)

\* C3: the parser returns, for each target neighborhood with a well-formed
\* data row, the value of its row of maximum date (the first such row) with
\* Date the last day of that row's month; no other neighborhood appears.
C3_LatestRowPerNeighborhood ==
    (fn = "scrape_streeteasy_data" /\ ret # Pending
        /\ arg[1] = "ok" /\ arg[2] # <<>>) =>
    /\ DOMAIN ret[2] = {t \in NYC_NEIGHBORHOODS : RowsOf(t, DataRows) # {}}
    /\ \A t \in DOMAIN ret[2] :
          LET row == DataRows[LatestRow(t, DataRows)]
              d == row[CSV_COL_INDEXES.DATE + 1]
          IN  /\ ret[2][t][TestMetric] =
                     PyText(row[CSV_COL_INDEXES.VALUE + 1])
              /\ ret[2][t]["Date"] =
                     PyText(StrftimePadded(d[1], d[2], monthrange(d[1], d[2])))

\* a row the parser cannot use: too few columns, or a target neighborhood's
\* row whose date does not parse
BadRow(row) ==
    \/ RowIndexError(row, CSV_COL_INDEXES)
    \/ /\ row[CSV_COL_INDEXES.NEIGHBORHOOD + 1] \in NYC_NEIGHBORHOODS
       /\ DateRaises(row[CSV_COL_INDEXES.DATE + 1])

\* C4: a row-level parse failure skips only that row: the feed's result is
\* the result of the same feed without its bad rows.
C4_BadRowsSkipped ==
    (fn = "scrape_streeteasy_data" /\ ret # Pending
        /\ arg[1] = "ok" /\ arg[2] # <<>>) =>
    ret[2] = scrape_streeteasy_data(
                 <<"ok", <<Header>> \o
                         SelectSeq(DataRows, LAMBDA row : ~BadRow(row))>>,
                 TestMetric, NYC_NEIGHBORHOODS, CSV_COL_INDEXES)

\* the three critical fields of a page can be extracted
CriticalsExtracted(page) ==
    /\ page["LONG_DATE"] # Absent
    /\ RegexSearch(page["LONG_DATE"][2]) # NoMatch
    /\ ~MonthYearRaises(RegexSearch(page["LONG_DATE"][2]))
    /\ page["SALE_PRICE"] # Absent
    /\ DigitsOnly(page["SALE_PRICE"][2]) # <<>>
    /\ page["SALE_TO_LIST_RATIO"] # Absent
    /\ ~FloatRaises(Remove(page["SALE_TO_LIST_RATIO"][2], "%"))
    /\ FloatE4(Remove(page["SALE_TO_LIST_RATIO"][2], "%")) > 0

\* C5: once date, sale price and ratio are extracted, no state of the six
\* optional elements makes scrape_market_summary return None; an absent
\* optional element yields its typed default.
C5_OptionalNeverAborts ==
    (fn = "scrape_market_summary" /\ ret # Pending /\ arg[1] = "ok"
        /\ CriticalsExtracted(arg[2])) =>
    /\ ret[2] # None
    /\ \A sel \in OptionalSelectors :
          arg[2][sel] = Absent => ret[2][OptionalKey(sel)] = OptionalDefault(sel)

\* C6: whatever fails, the run finishes: every town is scraped once, every
\* feed fetched once, and one publish attempt is made per collected record,
\* (successful HTML records) + (merged CSV neighborhoods) in all.
C6_RunCompletes ==
    /\ pc = "done" \/ ENABLED Next
    /\ \A i \in DOMAIN scrapeCount : scrapeCount[i] <= 1
    /\ \A i \in DOMAIN fetchCount : fetchCount[i] <= 1
    /\ Len(pushed) <= Len(all_market_data_to_push)
    /\ pc = "done" =>
          /\ \A i \in DOMAIN scrapeCount : scrapeCount[i] = 1
          /\ \A i \in DOMAIN fetchCount : fetchCount[i] = 1
          /\ Len(pushed) = HtmlCount + Cardinality(DOMAIN all_nyc_market_data)
          /\ \A i \in DOMAIN pushed :
                pushed[i] = normalize_record_for_grist(
                                all_market_data_to_push[i], GRIST_MASTER_SCHEMA)

C6_Witness ==
    /\ pc = "done"
    /\ all_data_successful = FALSE
    /\ HtmlCount = 1
    /\ \E i \in DOMAIN feedResults : feedResults[i] = EmptyDict
    /\ Cardinality(DOMAIN all_nyc_market_data) = 2
    /\ Len(pushed) = 3
    /\ lastPushResult = "request error"

\* a date text 'm/d/y' read back as <<m, d, y>>
ReadDate(cs) ==
    LET slashes == {i \in DOMAIN cs : cs[i] = "/"}
        s1 == CHOOSE i \in slashes : \A j \in slashes : i <= j
        s2 == CHOOSE i \in slashes : \A j \in slashes : i >= j
    IN  << DigitsValue(SubSeq(cs, 1, s1 - 1)),
           DigitsValue(SubSeq(cs, s1 + 1, s2 - 1)),
           DigitsValue(SubSeq(cs, s2 + 1, Len(cs))) >>

\* the last day of a month as the calendar has it
CalendarLastDay(y, m) ==
    IF m = 2
    THEN IF (y % 4 = 0 /\ y % 100 # 0) \/ y % 400 = 0 THEN 29 ELSE 28
    ELSE IF m \in {4, 6, 9, 11} THEN 30 ELSE 31

\* C7: every Date is the last calendar day of its month: get_last_day_of_month
\* gives 31/30/28/29 (29 for February exactly in leap years) for every month
\* name and year, and the CSV parser keeps the observation's year and month
\* with the month's last day.
C7_DateIsLastDayOfMonth ==
    /\ (fn = "get_last_day_of_month" /\ ret # Pending
           /\ ~MonthYearRaises(arg)) =>
          /\ ret[2].t = "text"
          /\ ReadDate(ret[2].v) =
                 << MonthNumber(arg[1]),
                    CalendarLastDay(arg[2], MonthNumber(arg[1])), arg[2] >>
    /\ (fn = "scrape_streeteasy_data" /\ ret # Pending) =>
          LET d == arg[2][2][CSV_COL_INDEXES.DATE + 1] IN
          d[3] <= CalendarLastDay(d[1], d[2]) =>
              /\ "Astoria" \in DOMAIN ret[2]
              /\ ReadDate(ret[2]["Astoria"]["Date"].v) =
                     <<d[2], CalendarLastDay(d[1], d[2]), d[1]>>

C7_Witness ==
    /\ fn = "scrape_streeteasy_data"
    /\ ret # Pending
    /\ arg[2][2][CSV_COL_INDEXES.DATE + 1] = <<2024, 2, 15>>
    /\ ret[2]["Astoria"]["Date"] =
           PyText(<<"0", "2", "/", "2", "9", "/", "2", "0", "2", "4">>)

\* C8 as stated: no two records handed to the publisher in one run have the
\* same Town.
C8_TownUnique ==
    \A i, j \in DOMAIN pushed :
        i # j => pushed[i]["Town"] # pushed[j]["Town"]

HtmlTowns == {TOWNS_TO_TRACK[i][1] : i \in DOMAIN TOWNS_TO_TRACK}

\* C8 amended: two records of one run have the same Town only when one comes
\* from the HTML path and the other from the CSV path, for a name configured
\* both as a town and as a neighborhood.
C8_TownUniquePerPath ==
    \A i, j \in DOMAIN pushed :
        (i < j /\ pushed[i]["Town"] = pushed[j]["Town"]) =>
            /\ i <= HtmlCount
            /\ j > HtmlCount
            /\ pushed[i]["Town"].v \in HtmlTowns \cap NYC_NEIGHBORHOODS

C8_Witness ==
    /\ pc = "done"
    /\ \E i, j \in DOMAIN pushed :
          /\ i < j
          /\ pushed[i]["Town"] = pushed[j]["Town"]
          /\ pushed[i]["Region"] # pushed[j]["Region"]
    /\ \E i, j \in DOMAIN pushed : i > HtmlCount /\ j > i

\* the sale price and the ratio (in units of 1e-6) of a returned record's page
PageSale == DigitsValue(DigitsOnly(arg[2]["SALE_PRICE"][2]))
PageRatio == FloatE4(Remove(arg[2]["SALE_TO_LIST_RATIO"][2], "%"))

\* C9 as stated: Median_List_Price is the integer nearest to
\* sale_price / ratio.
C9_ListPriceRounded ==
    (fn = "scrape_market_summary" /\ ret # Pending /\ ret[2] # None) =>
    LET p == ret[2]["Median_List_Price"].v
        diff == PageSale * 1000000 - p * PageRatio
    IN  2 * diff <= PageRatio /\ 2 * diff >= 0 - PageRatio

\* C9 amended: Median_List_Price is int(sale_price / ratio), the quotient
\* cut down to its integer part and never rounded up: the largest integer
\* not above the quotient, or the integer before it when the quotient is a
\* whole number that the float division falls short of.
C9_ListPriceTruncated ==
    (fn = "scrape_market_summary" /\ ret # Pending /\ ret[2] # None) =>
    LET p == ret[2]["Median_List_Price"].v
        diff == PageSale * 1000000 - p * PageRatio
    IN  /\ ret[2]["Median_List_Price"].t = "int"
        /\ diff >= 0
        /\ diff <= PageRatio

C9_Witness ==
    /\ fn = "scrape_market_summary"
    /\ ret # Pending
    /\ ret[2] # None
    /\ PageSale = 7
    /\ PageRatio = 1500000
    /\ ret[2]["Median_List_Price"] = PyInt(4)

\* the feeds, in order, that returned a record with key k for the town
FeedsWith(town, k) ==
    {i \in DOMAIN feedResults :
        town \in DOMAIN feedResults[i] /\ k \in DOMAIN feedResults[i][town]}

FeedsOf(town) == {i \in DOMAIN feedResults : town \in DOMAIN feedResults[i]}

LastOf(S) == CHOOSE i \in S : \A j \in S : j <= i

\* C10: the merge is a per-neighborhood union with update-wins: a
\* neighborhood is merged iff a feed returned it, its record has every field
\* of every feed's partial record, and a field several feeds define has the
\* value of the feed processed last.
C10_MergeIsUnionUpdateWins ==
    pc \in {"streeteasy", "calc"} =>
    /\ DOMAIN all_nyc_market_data =
           {t \in NYC_NEIGHBORHOODS : FeedsOf(t) # {}}
    /\ \A t \in DOMAIN all_nyc_market_data :
          /\ DOMAIN all_nyc_market_data[t] =
                 UNION {DOMAIN feedResults[i][t] : i \in FeedsOf(t)}
          /\ \A k \in DOMAIN all_nyc_market_data[t] :
                all_nyc_market_data[t][k] =
                    feedResults[LastOf(FeedsWith(t, k))][t][k]

C10_Witness ==
    /\ pc = "calc"
    /\ FeedsOf("Astoria") = {1, 4}
    /\ feedResults[1]["Astoria"]["Date"] # feedResults[4]["Astoria"]["Date"]
    /\ all_nyc_market_data["Astoria"]["Date"] =
           feedResults[4]["Astoria"]["Date"]
    /\ "Median_Sale_Price" \in DOMAIN all_nyc_market_data["Astoria"]
    /\ "Median_DOM" \in DOMAIN all_nyc_market_data["Astoria"]
    /\ feedResults[2] = EmptyDict

\* a date text 'm/d/y' as <<y, m, d>>
DateOf(value) ==
    LET r == ReadDate(value.v) IN <<r[3], r[1], r[2]>>

\* C11: in every merged CSV record the Date is the last day of the month of
\* the most recent observation used for the neighborhood, and every metric
\* in the record was observed in that month, whatever months the feeds'
\* latest rows fall in.
C11_RecordOfOneMonth ==
    pc \in {"calc", "push", "done"} =>
    \A t \in DOMAIN all_nyc_market_data :
        /\ \A i \in FeedsOf(t) :
              ~DateGreater(DateOf(feedResults[i][t]["Date"]),
                           DateOf(all_nyc_market_data[t]["Date"]))
        /\ \A i \in FeedsOf(t) :
              \A k \in (DOMAIN feedResults[i][t]) \ {"Date", "Town", "Region"} :
                  k \in DOMAIN all_nyc_market_data[t] =>
                      feedResults[i][t]["Date"] = all_nyc_market_data[t]["Date"]

====
